---- MODULE Spec2Model ----
(***************************************************************************)
(* Model of NetBuilder (src/vmm/src/vmm_config/net.rs): the list of        *)
(* network devices of a microVM and the build / add_device / configs       *)
(* operations on it.                                                       *)
(*                                                                         *)
(* A device handle (Arc<Mutex<Net>>) is a record                           *)
(*   [h, id, host_dev_name, guest_mac, rx, tx]                             *)
(* where rx/tx are the states of the constructed rate limiters and h tells *)
(* apart the allocations whose devices have equal fields: two handles are  *)
(* the same Arc iff they are equal as records.                             *)
(* Option<T> is modelled as T \cup {NoneV}.                                *)
(***************************************************************************)
EXTENDS Integers, Sequences, FiniteSets, TLC

\* ---------------------------------------------------------------- bounds
\* add_device is explored while the registry is shorter than this.
MaxLen == 2

\* Length of the error texts of the collaborators that are explored.
MaxTextLen == 3

\* ------------------------------------------------------------ value sets
NoneV == "None"

Ids == {"net1", "net2", "net3"}
Names == {"tap0", "tap1"}
\* MacAddr: six bytes.  Option<MacAddr>::None is the empty tuple.
Macs == {<<6, 0, 0, 0, 0, 1>>, <<6, 0, 0, 0, 0, 27>>}
NoMac == <<>>
OptMacs == Macs \cup {NoMac}

\* Rate limiter descriptors a config may carry: "L1" resolves to a limiter
\* with a token bucket, "Bad" is one whose conversion returns an io::Error.
LimiterDescs == {"L1", "Bad"}
OptLimiterDescs == LimiterDescs \cup {NoneV}

\* States of a constructed RateLimiter: the default one has no bucket.
Unlimited == "Unlimited"
Limiters == {Unlimited, "L1"}

\* NetworkInterfaceConfig
AllConfigs == [iface_id : Ids,
               host_dev_name : Names,
               guest_mac : OptMacs,
               rx_rate_limiter : OptLimiterDescs,
               tx_rate_limiter : OptLimiterDescs]

\* Number of the fields host_dev_name, rx_rate_limiter, tx_rate_limiter in
\* which a config departs from {"tap0", None, None}.
Departures(c) ==
    (IF c.host_dev_name # "tap0" THEN 1 ELSE 0)
    + (IF c.rx_rate_limiter # NoneV THEN 1 ELSE 0)
    + (IF c.tx_rate_limiter # NoneV THEN 1 ELSE 0)

\* The request bodies explored: every id and MAC, and at most one departure
\* in the other fields.
Configs == {c \in AllConfigs : Departures(c) <= 1}

\* ------------------------------------------------- collaborators of net.rs
\* RateLimiterConfig::try_into: the limiter of a descriptor, or an error.
ResolveFails(desc) == desc = "Bad"

Resolve(desc) == desc

\* Bug variant: an absent limiter becomes a limiter with a bucket.
UnwrapOrDefault_bucket(optLimiter) == IF optLimiter = NoneV THEN "L1" ELSE optLimiter

\* Option<RateLimiter>::unwrap_or_default
UnwrapOrDefault(optLimiter) == IF optLimiter = NoneV THEN Unlimited ELSE optLimiter

\* RateLimiterConfig::from(&RateLimiter) followed by into_option(): a limiter
\* without buckets is reported as an absent descriptor.
LimiterToOptConfig(limiter) == IF limiter = Unlimited THEN NoneV ELSE limiter

\* Net::new_with_tap: the device that a successful factory call returns.
NewWithTap(id, name, mac, rx, tx) ==
    [id |-> id, host_dev_name |-> name, guest_mac |-> mac, rx |-> rx, tx |-> tx]

\* MacAddr::to_string: "{:02x}" of each byte, joined by ":"; a string is the
\* sequence of its characters.
HexDigit(n) ==
    <<"0", "1", "2", "3", "4", "5", "6", "7", "8", "9", "a", "b", "c", "d", "e", "f">>[n + 1]

HexByte(b) == <<HexDigit(b \div 16), HexDigit(b % 16)>>

RECURSIVE JoinHex(_)
JoinHex(bytes) ==
    IF Len(bytes) = 0 THEN <<>>
    ELSE IF Len(bytes) = 1 THEN HexByte(bytes[1])
    ELSE HexByte(bytes[1]) \o <<":">> \o JoinHex(Tail(bytes))

MacToString(mac) == JoinHex(mac)

\* ------------------------------------------------------------------ state
VARIABLES
    net_devices,   \* NetBuilder::net_devices, a sequence of handles
    call,          \* the build / add_device call the caller has just made:
                   \* its arguments, the registry before it and its result
    snap,          \* the result of configs() if the caller has just called it
    order,         \* observer of the order of the successful builds: the ids
                   \* in the registry, the one built last at the end; it is
                   \* switched on by InitOrder
    ctl,           \* the control-plane thread inside build or configs, when
                   \* these are followed statement by statement: its position,
                   \* the borrow of the NetBuilder and the handle locks it holds
    io             \* ids of the handles of the registry whose lock is held by
                   \* the I/O thread of the device

vars == <<net_devices, call, snap, order, ctl, io>>

\* snap.taken is FALSE when the last operation was not configs()
NoSnap == [taken |-> FALSE, before |-> <<>>, entries |-> <<>>]

\* The fields of the device behind a handle.
NetOf(handle) ==
    [id |-> handle.id, host_dev_name |-> handle.host_dev_name,
     guest_mac |-> handle.guest_mac, rx |-> handle.rx, tx |-> handle.tx]

\* Arc::new(Mutex::new(net)): a new allocation, different from every handle
\* of devs (the allocations that are alive in the registry).
ArcNew(devs, net) ==
    LET used == {devs[i].h : i \in {j \in 1..Len(devs) : NetOf(devs[j]) = net}}
        h == CHOOSE n \in 1..(Len(devs) + 1) :
                 n \notin used /\ \A m \in 1..(n - 1) : m \in used
    IN [h |-> h, id |-> net.id, host_dev_name |-> net.host_dev_name,
        guest_mac |-> net.guest_mac, rx |-> net.rx, tx |-> net.tx]

\* ------------------------------------------------------- Vec operations
\* Bug variant: the index returned for a match is always the first one.
Position_one(devs, id) ==
    IF \E i \in 1..Len(devs) : devs[i].id = id THEN 1 ELSE 0

\* Iterator::position: index of the first element satisfying the test, 0 if none
Position(devs, id) ==
    IF \E i \in 1..Len(devs) : devs[i].id = id
    THEN CHOOSE i \in 1..Len(devs) :
            /\ devs[i].id = id
            /\ \A j \in 1..(i - 1) : devs[j].id # id
    ELSE 0

\* Bug variant: the last element is removed whatever the index.
SwapRemove_last(devs, index) == SubSeq(devs, 1, Len(devs) - 1)

\* Vec::swap_remove: the element at index is replaced by the last one
SwapRemove(devs, index) ==
    [i \in 1..(Len(devs) - 1) |-> IF i = index THEN devs[Len(devs)] ELSE devs[i]]

\* ------------------------------------------------------ NetBuilder::build
\* Bug variant: the id of the device is not looked at.
mac_conflict_anyid(cfg, net) ==
    /\ cfg.guest_mac # NoMac
    /\ cfg.guest_mac = net.guest_mac

\* Bug variant: the is_some() test is missing.
mac_conflict_nosome(cfg, net) ==
    /\ cfg.guest_mac = net.guest_mac
    /\ cfg.iface_id # net.id

\* the closure mac_conflict of build
mac_conflict(cfg, net) ==
    /\ cfg.guest_mac # NoMac
    /\ cfg.guest_mac = net.guest_mac
    /\ cfg.iface_id # net.id

\* Bug variant: only the first device is examined.
AnyMacConflict_first(devs, cfg) == Len(devs) >= 1 /\ mac_conflict(cfg, devs[1])

AnyMacConflict(devs, cfg) == \E i \in 1..Len(devs) : mac_conflict(cfg, devs[i])

\* Bug variant: a limiter that fails to resolve is replaced by the default.
create_net_default(cfg, factoryOk) ==
    LET rx == IF cfg.rx_rate_limiter = NoneV \/ ResolveFails(cfg.rx_rate_limiter)
              THEN NoneV ELSE Resolve(cfg.rx_rate_limiter)
        tx == IF cfg.tx_rate_limiter = NoneV \/ ResolveFails(cfg.tx_rate_limiter)
              THEN NoneV ELSE Resolve(cfg.tx_rate_limiter)
        resolved == (IF cfg.rx_rate_limiter = NoneV THEN <<>> ELSE <<"rx">>)
                    \o (IF cfg.tx_rate_limiter = NoneV THEN <<>> ELSE <<"tx">>)
    IN IF factoryOk
       THEN [result |-> "Ok", resolved |-> resolved, factoryCalled |-> TRUE,
             limiters |-> <<UnwrapOrDefault(rx), UnwrapOrDefault(tx)>>,
             net |-> NewWithTap(cfg.iface_id, cfg.host_dev_name, cfg.guest_mac,
                                UnwrapOrDefault(rx), UnwrapOrDefault(tx))]
       ELSE [result |-> "CreateNetworkDevice", resolved |-> resolved,
             factoryCalled |-> TRUE,
             limiters |-> <<UnwrapOrDefault(rx), UnwrapOrDefault(tx)>>,
             net |-> NoneV]

\* NetBuilder::create_net.  factoryOk is the outcome the host gives to
\* Net::new_with_tap (tap name, permissions, tap already bound).
create_net(cfg, factoryOk) ==
    IF cfg.rx_rate_limiter # NoneV /\ ResolveFails(cfg.rx_rate_limiter)
    THEN [result |-> "CreateRateLimiter", resolved |-> <<"rx">>,
          factoryCalled |-> FALSE, limiters |-> <<>>, net |-> NoneV]
    ELSE LET rx == IF cfg.rx_rate_limiter = NoneV THEN NoneV
                   ELSE Resolve(cfg.rx_rate_limiter)
             rxResolved == IF cfg.rx_rate_limiter = NoneV THEN <<>> ELSE <<"rx">>
         IN
         IF cfg.tx_rate_limiter # NoneV /\ ResolveFails(cfg.tx_rate_limiter)
         THEN [result |-> "CreateRateLimiter", resolved |-> rxResolved \o <<"tx">>,
               factoryCalled |-> FALSE, limiters |-> <<>>, net |-> NoneV]
         ELSE LET tx == IF cfg.tx_rate_limiter = NoneV THEN NoneV
                        ELSE Resolve(cfg.tx_rate_limiter)
                  resolved == rxResolved \o
                              (IF cfg.tx_rate_limiter = NoneV THEN <<>> ELSE <<"tx">>)
              IN
              IF factoryOk
              THEN [result |-> "Ok", resolved |-> resolved, factoryCalled |-> TRUE,
                    limiters |-> <<UnwrapOrDefault(rx), UnwrapOrDefault(tx)>>,
                    net |-> NewWithTap(cfg.iface_id, cfg.host_dev_name, cfg.guest_mac,
                                       UnwrapOrDefault(rx), UnwrapOrDefault(tx))]
              ELSE [result |-> "CreateNetworkDevice", resolved |-> resolved,
                    factoryCalled |-> TRUE,
                    limiters |-> <<UnwrapOrDefault(rx), UnwrapOrDefault(tx)>>,
                    net |-> NoneV]

\* Bug variant: the old device of the id is not removed.
RemoveOld_keep(devs, cfg) == devs

\* Bug variant: the old device and everything after it are removed.
RemoveOld_truncate(devs, cfg) ==
    LET index == Position(devs, cfg.iface_id)
    IN IF index # 0 THEN SubSeq(devs, 1, index - 1) ELSE devs

\* The part of build after the MAC check: removal of the old device of the
\* id ("If this is an update, just remove the old one").
RemoveOld(devs, cfg) ==
    LET index == Position(devs, cfg.iface_id)
    IN IF index # 0 THEN SwapRemove(devs, index) ELSE devs

\* Bug variant: the new handle is inserted in front.
Push_front(devs, net) == <<net>> \o devs

\* Vec::push
Push(devs, net) == Append(devs, net)

\* Bug variant: the old device is removed before the MAC check.
Rejected_removes(devs, cfg) ==
    [devices |-> RemoveOld(devs, cfg), result |-> "GuestMacAddressInUse",
     errMac |-> MacToString(cfg.guest_mac), resolved |-> <<>>,
     factoryCalled |-> FALSE, limiters |-> <<>>, ret |-> NoneV]

\* build when the MAC check fails: the early return of the error.
Rejected(devs, cfg) ==
    [devices |-> devs, result |-> "GuestMacAddressInUse",
     errMac |-> MacToString(cfg.guest_mac), resolved |-> <<>>,
     factoryCalled |-> FALSE, limiters |-> <<>>, ret |-> NoneV]

\* Bug variant: the old device is put back when construction fails.
Replace_rollback(devs, cfg, factoryOk) ==
    LET removed == RemoveOld(devs, cfg)
        made == create_net(cfg, factoryOk)
    IN IF made.result = "Ok"
       THEN LET net == ArcNew(removed, made.net)
            IN [devices |-> Append(removed, net), result |-> "Ok",
                errMac |-> <<>>, resolved |-> made.resolved,
                factoryCalled |-> made.factoryCalled,
                limiters |-> made.limiters, ret |-> net]
       ELSE [devices |-> devs, result |-> made.result,
             errMac |-> <<>>, resolved |-> made.resolved,
             factoryCalled |-> made.factoryCalled,
             limiters |-> made.limiters, ret |-> NoneV]

\* Bug variant: the handle returned is another allocation than the one
\* pushed.
Replace_copy(devs, cfg, factoryOk) ==
    LET removed == RemoveOld(devs, cfg)
        made == create_net(cfg, factoryOk)
    IN IF made.result = "Ok"
       THEN LET net == ArcNew(removed, made.net)
                pushed == Append(removed, net)
            IN [devices |-> pushed, result |-> "Ok",
                errMac |-> <<>>, resolved |-> made.resolved,
                factoryCalled |-> made.factoryCalled,
                limiters |-> made.limiters, ret |-> ArcNew(pushed, made.net)]
       ELSE [devices |-> removed, result |-> made.result,
             errMac |-> <<>>, resolved |-> made.resolved,
             factoryCalled |-> made.factoryCalled,
             limiters |-> made.limiters, ret |-> NoneV]

\* build when the MAC check passes: removal of the old device, construction
\* of the new one and, if that succeeded, its insertion.
Replace(devs, cfg, factoryOk) ==
    LET removed == RemoveOld(devs, cfg)
        made == create_net(cfg, factoryOk)
    IN IF made.result = "Ok"
       THEN LET net == ArcNew(removed, made.net)
            IN [devices |-> Push(removed, net), result |-> "Ok",
                errMac |-> <<>>, resolved |-> made.resolved,
                factoryCalled |-> made.factoryCalled,
                limiters |-> made.limiters, ret |-> net]
       ELSE [devices |-> removed, result |-> made.result,
             errMac |-> <<>>, resolved |-> made.resolved,
             factoryCalled |-> made.factoryCalled,
             limiters |-> made.limiters, ret |-> NoneV]

\* Bug variant: the device is constructed before the MAC check.
build_constructfirst(devs, cfg, factoryOk) ==
    IF create_net(cfg, factoryOk).result # "Ok"
    THEN Replace(devs, cfg, factoryOk)
    ELSE IF AnyMacConflict(devs, cfg)
         THEN Rejected(devs, cfg)
         ELSE Replace(devs, cfg, factoryOk)

\* NetBuilder::build as a function of the registry, the config and the
\* factory's outcome.
build(devs, cfg, factoryOk) ==
    IF AnyMacConflict(devs, cfg)
    THEN Rejected(devs, cfg)
    ELSE Replace(devs, cfg, factoryOk)

\* Bug variant: into_option() is missing, a default limiter is reported as
\* a descriptor.
ConfigFromNet_raw(net) ==
    [iface_id |-> net.id,
     host_dev_name |-> net.host_dev_name,
     guest_mac |-> net.guest_mac,
     rx_rate_limiter |-> net.rx,
     tx_rate_limiter |-> net.tx]

\* impl From<&Net> for NetworkInterfaceConfig
ConfigFromNet(net) ==
    [iface_id |-> net.id,
     host_dev_name |-> net.host_dev_name,
     guest_mac |-> net.guest_mac,
     rx_rate_limiter |-> LimiterToOptConfig(net.rx),
     tx_rate_limiter |-> LimiterToOptConfig(net.tx)]

\* NetBuilder::configs
configs(devs) == [i \in 1..Len(devs) |-> ConfigFromNet(devs[i])]

\* Bug variant: a device whose id is present is not added.
add_device_checked(devs, device) ==
    IF \E i \in 1..Len(devs) : devs[i].id = device.id
    THEN devs ELSE Append(devs, device)

\* NetBuilder::add_device
add_device(devs, device) == Append(devs, device)

\* ------------------------------------------- patch of the rate limiters
\* NetworkInterfaceUpdateConfig; the descriptors explored resolve.
UpdateConfigs == [iface_id : Ids,
                  rx_rate_limiter : {NoneV, "L1"},
                  tx_rate_limiter : {NoneV, "L1"}]

\* Bug variant: a field that is absent in the update resets the limiter.
PatchLimiters_nullify(handle, rx, tx) ==
    [handle EXCEPT !.rx = IF rx = NoneV THEN Unlimited ELSE Resolve(rx),
                   !.tx = IF tx = NoneV THEN Unlimited ELSE Resolve(tx)]

\* The in-place limiter update of a device: only the fields that are
\* present are forwarded, the others are left as they are.
PatchLimiters(handle, rx, tx) ==
    [handle EXCEPT !.rx = IF rx = NoneV THEN @ ELSE Resolve(rx),
                   !.tx = IF tx = NoneV THEN @ ELSE Resolve(tx)]

\* The update of the registry for a NetworkInterfaceUpdateConfig: the handle
\* is looked up by id; an unknown id is a DeviceUpdate error.
update(devs, upd) ==
    LET index == Position(devs, upd.iface_id)
    IN IF index = 0
       THEN [devices |-> devs, result |-> "DeviceUpdate"]
       ELSE [devices |-> [devs EXCEPT ![index] =
                            PatchLimiters(@, upd.rx_rate_limiter, upd.tx_rate_limiter)],
             result |-> "Ok"]

\* ------------------------------- impl fmt::Display for NetworkInterfaceError
\* A string is the sequence of its characters.
Quote == "\""

\* Texts that the formatting of a collaborator's error may produce
\* ({:?} of devices::virtio::net::Error and TapError, {} of io::Error and
\* VmmError), e.g. IoctlError(Os { code: 16, message: "Device or resource busy" }).
TextChars == {"e", ":", Quote}
ErrorTexts == UNION {[1..n -> TextChars] : n \in 0..MaxTextLen}

CreateNetworkDevicePrefix ==
    <<"C", "o", "u", "l", "d", " ", "n", "o", "t", " ", "c", "r", "e", "a",
      "t", "e", " ", "N", "e", "t", "w", "o", "r", "k", " ", "D", "e", "v",
      "i", "c", "e", ":", " ">>

CreateRateLimiterPrefix ==
    <<"C", "a", "n", "n", "o", "t", " ", "c", "r", "e", "a", "t", "e", " ",
      "R", "a", "t", "e", "L", "i", "m", "i", "t", "e", "r", ":", " ">>

MacInUsePrefix ==
    <<"T", "h", "e", " ", "g", "u", "e", "s", "t", " ", "M", "A", "C", " ",
      "a", "d", "d", "r", "e", "s", "s", " ">>

MacInUseSuffix ==
    <<" ", "i", "s", " ", "a", "l", "r", "e", "a", "d", "y", " ", "i", "n",
      " ", "u", "s", "e", ".">>

DeviceUpdatePrefix ==
    <<"E", "r", "r", "o", "r", " ", "d", "u", "r", "i", "n", "g", " ", "i",
      "n", "t", "e", "r", "f", "a", "c", "e", " ", "u", "p", "d", "a", "t",
      "e", " ", "(", "p", "a", "t", "c", "h", ")", ":", " ">>

OpenTapPrefix ==
    <<"C", "a", "n", "n", "o", "t", " ", "o", "p", "e", "n", " ", "T", "A",
      "P", " ", "d", "e", "v", "i", "c", "e", ".", " ", "I", "n", "v", "a",
      "l", "i", "d", " ", "n", "a", "m", "e", "/", "p", "e", "r", "m", "i",
      "s", "s", "i", "o", "n", "s", ".", " ">>

\* str::replace("\"", "")
StripQuotes(text) == SelectSeq(text, LAMBDA c : c # Quote)

ErrorVariants == {"CreateNetworkDevice", "CreateRateLimiter", "GuestMacAddressInUse",
                  "DeviceUpdate", "OpenTap"}

\* Display::fmt; payload is the formatted inner error, or the MAC string of
\* GuestMacAddressInUse.
Display(variant, payload) ==
    CASE variant = "CreateNetworkDevice" -> CreateNetworkDevicePrefix \o payload
      [] variant = "CreateRateLimiter" -> CreateRateLimiterPrefix \o payload
      [] variant = "GuestMacAddressInUse" -> MacInUsePrefix \o payload \o MacInUseSuffix
      [] variant = "DeviceUpdate" -> DeviceUpdatePrefix \o payload
      [] variant = "OpenTap" -> OpenTapPrefix \o StripQuotes(payload)

\* ------------------------------------------------- order of the builds
Without(ids, id) == SelectSeq(ids, LAMBDA x : x # id)

\* The order after a build of id with the given result: a successful build
\* makes id the most recent one, a build that removed the old device and
\* failed in construction takes id out, a rejected one changes nothing.
Track(ord, id, result) ==
    IF ~ord.on \/ result = "GuestMacAddressInUse" THEN ord
    ELSE IF result = "Ok"
         THEN [on |-> TRUE, ids |-> Append(Without(ord.ids, id), id)]
         ELSE [on |-> TRUE, ids |-> Without(ord.ids, id)]

\* ------------------------------------------------------------------ actions
NoCall == [op |-> "idle", cfg |-> NoneV, factoryOk |-> FALSE, prev |-> <<>>,
           result |-> NoneV, errMac |-> <<>>, resolved |-> <<>>,
           factoryCalled |-> FALSE, limiters |-> <<>>, ret |-> NoneV]

\* The control-plane thread is not inside a call.
CtlIdle == [pc |-> "idle", op |-> "none", borrow |-> "none", locked |-> {}, i |-> 0,
            cfg |-> NoneV, factoryOk |-> FALSE, prev |-> <<>>, made |-> NoneV,
            acc |-> <<>>]

\* NetBuilder::new
Init ==
    /\ net_devices = <<>>
    /\ call = NoCall
    /\ snap = NoSnap
    /\ order = [on |-> FALSE, ids |-> <<>>]
    /\ ctl = CtlIdle
    /\ io = {}

Build(cfg, factoryOk) ==
    /\ call.op = "idle" /\ ~snap.taken
    /\ LET r == build(net_devices, cfg, factoryOk)
       IN /\ net_devices' = r.devices
          /\ call' = [op |-> "build", cfg |-> cfg, factoryOk |-> factoryOk,
                      prev |-> net_devices,
                      result |-> r.result, errMac |-> r.errMac,
                      resolved |-> r.resolved, factoryCalled |-> r.factoryCalled,
                      limiters |-> r.limiters, ret |-> r.ret]
          /\ order' = Track(order, cfg.iface_id, r.result)
    /\ snap' = NoSnap
    /\ UNCHANGED <<ctl, io>>

\* The devices a caller may hand to add_device: constructed elsewhere
\* (e.g. restored from a snapshot) with Net::new_with_tap.
Devices == {NewWithTap(c.iface_id, c.host_dev_name, c.guest_mac,
                       UnwrapOrDefault(c.rx_rate_limiter),
                       UnwrapOrDefault(c.tx_rate_limiter)) :
                c \in {c \in Configs : /\ c.rx_rate_limiter # "Bad"
                                       /\ c.tx_rate_limiter # "Bad"}}

\* The caller's obligation before add_device: the id and the MAC are new.
AddPrecondition(devs, net) ==
    \A i \in 1..Len(devs) :
        /\ devs[i].id # net.id
        /\ (net.guest_mac # NoMac => devs[i].guest_mac # net.guest_mac)

AddDevice(net) ==
    /\ call.op = "idle" /\ ~snap.taken
    /\ LET device == ArcNew(net_devices, net)
       IN /\ net_devices' = add_device(net_devices, device)
          /\ call' = [op |-> "add_device", cfg |-> NoneV, factoryOk |-> FALSE,
                      prev |-> net_devices,
                      result |-> "Ok", errMac |-> <<>>, resolved |-> <<>>,
                      factoryCalled |-> FALSE, limiters |-> <<>>, ret |-> device]
    /\ snap' = NoSnap
    /\ UNCHANGED <<order, ctl, io>>

GetConfigs ==
    /\ ~snap.taken
    /\ snap' = [taken |-> TRUE, before |-> net_devices,
                entries |-> configs(net_devices)]
    /\ UNCHANGED <<net_devices, call, order, ctl, io>>

\* The caller is done with the result of the call and is ready for the
\* next request.
Return ==
    /\ call.op # "idle" \/ snap.taken
    /\ call' = NoCall
    /\ snap' = NoSnap
    /\ UNCHANGED <<net_devices, order, ctl, io>>

BuildStep == \E cfg \in Configs, factoryOk \in BOOLEAN : Build(cfg, factoryOk)

AddStep == \E net \in Devices : AddPrecondition(net_devices, net) /\ AddDevice(net)

Next == BuildStep \/ AddStep \/ GetConfigs \/ Return

Spec == Init /\ [][Next]_vars

\* Build calls only, from the empty registry, with the order of the
\* successful builds observed; the configs differ in id and MAC.
PlainConfigs == {c \in Configs : Departures(c) = 0}

InitOrder ==
    /\ net_devices = <<>>
    /\ call = NoCall
    /\ snap = NoSnap
    /\ order = [on |-> TRUE, ids |-> <<>>]
    /\ ctl = CtlIdle
    /\ io = {}

BuildPlainStep == \E cfg \in PlainConfigs, factoryOk \in BOOLEAN : Build(cfg, factoryOk)

NextOrder == BuildPlainStep \/ GetConfigs \/ Return

SpecOrder == InitOrder /\ [][NextOrder]_vars

\* add_device called with any device, whatever the registry holds.
PlainDevices == {NewWithTap(c.iface_id, c.host_dev_name, c.guest_mac,
                            Unlimited, Unlimited) : c \in PlainConfigs}

AddAnyStep ==
    /\ Len(net_devices) < MaxLen
    /\ \E net \in PlainDevices : AddDevice(net)

NextAny == BuildPlainStep \/ AddAnyStep \/ GetConfigs \/ Return

SpecAny == Init /\ [][NextAny]_vars

\* A patch request for the limiters of an interface.
Update(upd) ==
    /\ call.op = "idle" /\ ~snap.taken
    /\ LET r == update(net_devices, upd)
       IN /\ net_devices' = r.devices
          /\ call' = [op |-> "update", cfg |-> upd, factoryOk |-> FALSE,
                      prev |-> net_devices,
                      result |-> r.result, errMac |-> <<>>, resolved |-> <<>>,
                      factoryCalled |-> FALSE, limiters |-> <<>>, ret |-> NoneV]
    /\ snap' = NoSnap
    /\ UNCHANGED <<order, ctl, io>>

UpdateStep == \E upd \in UpdateConfigs : Update(upd)

NextUpdate == BuildPlainStep \/ UpdateStep \/ GetConfigs \/ Return

SpecUpdate == Init /\ [][NextUpdate]_vars

\* An error value is formatted with Display (to_string()).
ShowError(variant, payload) ==
    /\ call.op = "idle" /\ ~snap.taken
    /\ call' = [op |-> "display", variant |-> variant, payload |-> payload,
                shown |-> Display(variant, payload)]
    /\ UNCHANGED <<net_devices, snap, order, ctl, io>>

DisplayStep ==
    \/ \E variant \in ErrorVariants \ {"GuestMacAddressInUse"}, text \in ErrorTexts :
          ShowError(variant, text)
    \/ \E mac \in Macs : ShowError("GuestMacAddressInUse", MacToString(mac))

NextDisplay == DisplayStep \/ Return

SpecDisplay == Init /\ [][NextDisplay]_vars

\* --------------------------------- build and configs, statement by statement
\* The control-plane thread runs build and configs one statement at a time,
\* while the I/O thread of every device of the registry locks and unlocks
\* the handle of its device.

\* The positions at which the control-plane thread calls Mutex::lock.
LockPcs == {"mac_lock", "pos_lock", "cfg_lock"}

\* Mutex::lock returns when no thread holds the lock of the handle.
LockFree(id) == id \notin io /\ id \notin ctl.locked

\* Bug variant: the guard of a handle outlives the statement that took it.
Release_keep(locked, id) == locked

\* The MutexGuard is a local of the closure or a temporary of the statement:
\* it is dropped when the closure or the statement ends.
Release(locked, id) == locked \ {id}

\* The request bodies explored statement by statement: every id and MAC,
\* without a limiter or with a tx limiter whose conversion fails.
StepConfigs == {c \in Configs : /\ c.host_dev_name = "tap0"
                                /\ c.rx_rate_limiter = NoneV
                                /\ c.tx_rate_limiter # "L1"}

\* build(&mut self, netif_config): the NetBuilder is borrowed exclusively
\* from the call to the return.
BeginBuild(cfg, factoryOk) ==
    /\ ctl.pc = "idle" /\ call.op = "idle" /\ ~snap.taken
    /\ ctl' = [CtlIdle EXCEPT !.pc = "mac_lock", !.op = "build",
                              !.borrow = "exclusive", !.i = 1, !.cfg = cfg,
                              !.factoryOk = factoryOk, !.prev = net_devices]
    /\ UNCHANGED <<net_devices, call, snap, order, io>>

\* The return of build: the borrow ends with the call.
FinishBuild(r) ==
    /\ call' = [op |-> "build", cfg |-> ctl.cfg, factoryOk |-> ctl.factoryOk,
                prev |-> ctl.prev,
                result |-> r.result, errMac |-> r.errMac,
                resolved |-> r.resolved, factoryCalled |-> r.factoryCalled,
                limiters |-> r.limiters, ret |-> r.ret]
    /\ order' = Track(order, ctl.cfg.iface_id, r.result)
    /\ ctl' = CtlIdle
    /\ snap' = NoSnap

\* iter().any(mac_conflict): the next handle is locked by the closure, or the
\* iterator is exhausted and the search of the id begins.
MacLock ==
    /\ ctl.pc = "mac_lock"
    /\ IF ctl.i > Len(net_devices)
       THEN ctl' = [ctl EXCEPT !.pc = "pos_lock", !.i = 1]
       ELSE /\ LockFree(net_devices[ctl.i].id)
            /\ ctl' = [ctl EXCEPT !.pc = "mac_test",
                                  !.locked = @ \cup {net_devices[ctl.i].id}]
    /\ UNCHANGED <<net_devices, call, snap, order, io>>

\* The body of the closure mac_conflict on the locked handle; the guard is
\* dropped when the closure returns.  A conflict is the early return of build.
MacTest ==
    /\ ctl.pc = "mac_test"
    /\ LET net == net_devices[ctl.i]
       IN IF mac_conflict(ctl.cfg, net)
          THEN /\ FinishBuild(Rejected(net_devices, ctl.cfg))
               /\ UNCHANGED <<net_devices, io>>
          ELSE /\ ctl' = [ctl EXCEPT !.pc = "mac_lock", !.i = @ + 1,
                                     !.locked = Release(@, net.id)]
               /\ UNCHANGED <<net_devices, call, snap, order, io>>

\* iter().position(..): the next handle is locked, or the iterator is
\* exhausted and nothing is removed.
PosLock ==
    /\ ctl.pc = "pos_lock"
    /\ IF ctl.i > Len(net_devices)
       THEN ctl' = [ctl EXCEPT !.pc = "construct", !.i = 0]
       ELSE /\ LockFree(net_devices[ctl.i].id)
            /\ ctl' = [ctl EXCEPT !.pc = "pos_test",
                                  !.locked = @ \cup {net_devices[ctl.i].id}]
    /\ UNCHANGED <<net_devices, call, snap, order, io>>

\* The test of position on the locked handle; the guard is a temporary.
PosTest ==
    /\ ctl.pc = "pos_test"
    /\ LET net == net_devices[ctl.i]
       IN ctl' = [ctl EXCEPT !.pc = IF net.id = ctl.cfg.iface_id
                                    THEN "remove" ELSE "pos_lock",
                             !.i = IF net.id = ctl.cfg.iface_id THEN @ ELSE @ + 1,
                             !.locked = Release(@, net.id)]
    /\ UNCHANGED <<net_devices, call, snap, order, io>>

\* self.net_devices.swap_remove(index); the handle leaves the registry, and
\* with it the lock its I/O thread may hold.
SwapRemoveOld ==
    /\ ctl.pc = "remove"
    /\ net_devices' = SwapRemove(net_devices, ctl.i)
    /\ io' = io \ {net_devices[ctl.i].id}
    /\ ctl' = [ctl EXCEPT !.pc = "construct", !.i = 0]
    /\ UNCHANGED <<call, snap, order>>

\* create_net up to the call of the factory: the limiters are resolved, and
\* an error is returned by the `?` of build.
ResolveLimiters ==
    /\ ctl.pc = "construct"
    /\ LET made == create_net(ctl.cfg, ctl.factoryOk)
       IN IF made.result = "CreateRateLimiter"
          THEN /\ FinishBuild([devices |-> net_devices, result |-> made.result,
                               errMac |-> <<>>, resolved |-> made.resolved,
                               factoryCalled |-> made.factoryCalled,
                               limiters |-> made.limiters, ret |-> NoneV])
               /\ UNCHANGED <<net_devices, io>>
          ELSE /\ ctl' = [ctl EXCEPT !.pc = "factory", !.made = made]
               /\ UNCHANGED <<net_devices, call, snap, order, io>>

\* Net::new_with_tap is in progress and returns: the device, or the error
\* returned by the `?` of build.
FactoryReturns ==
    /\ ctl.pc = "factory"
    /\ IF ctl.made.result = "Ok"
       THEN /\ ctl' = [ctl EXCEPT !.pc = "push"]
            /\ UNCHANGED <<call, snap, order>>
       ELSE FinishBuild([devices |-> net_devices, result |-> ctl.made.result,
                         errMac |-> <<>>, resolved |-> ctl.made.resolved,
                         factoryCalled |-> ctl.made.factoryCalled,
                         limiters |-> ctl.made.limiters, ret |-> NoneV])
    /\ UNCHANGED <<net_devices, io>>

\* Arc::new(Mutex::new(..)), self.net_devices.push(net.clone()) and Ok(net)
PushNew ==
    /\ ctl.pc = "push"
    /\ LET net == ArcNew(net_devices, ctl.made.net)
       IN /\ net_devices' = Push(net_devices, net)
          /\ FinishBuild([devices |-> Push(net_devices, net), result |-> "Ok",
                          errMac |-> <<>>, resolved |-> ctl.made.resolved,
                          factoryCalled |-> ctl.made.factoryCalled,
                          limiters |-> ctl.made.limiters, ret |-> net])
    /\ UNCHANGED io

\* configs(&self): the NetBuilder is borrowed shared for the call.
BeginConfigs ==
    /\ ctl.pc = "idle" /\ call.op = "idle" /\ ~snap.taken
    /\ ctl' = [CtlIdle EXCEPT !.pc = "cfg_lock", !.op = "configs",
                              !.borrow = "shared", !.i = 1, !.prev = net_devices]
    /\ UNCHANGED <<net_devices, call, snap, order, io>>

\* The loop of configs: the next handle is locked, or the loop ends and the
\* vector is returned.
CfgLock ==
    /\ ctl.pc = "cfg_lock"
    /\ IF ctl.i > Len(net_devices)
       THEN /\ snap' = [taken |-> TRUE, before |-> ctl.prev, entries |-> ctl.acc]
            /\ ctl' = CtlIdle
       ELSE /\ LockFree(net_devices[ctl.i].id)
            /\ ctl' = [ctl EXCEPT !.pc = "cfg_push",
                                  !.locked = @ \cup {net_devices[ctl.i].id}]
            /\ UNCHANGED snap
    /\ UNCHANGED <<net_devices, call, order, io>>

\* ret.push(NetworkInterfaceConfig::from(net.lock().unwrap().deref())); the
\* guard is a temporary of the statement.
CfgPush ==
    /\ ctl.pc = "cfg_push"
    /\ LET net == net_devices[ctl.i]
       IN ctl' = [ctl EXCEPT !.pc = "cfg_lock", !.i = @ + 1,
                             !.acc = Append(@, ConfigFromNet(net)),
                             !.locked = Release(@, net.id)]
    /\ UNCHANGED <<net_devices, call, snap, order, io>>

\* The I/O thread of a device of the registry locks the handle of its device,
\* and no other one.
IoLock(id) ==
    /\ \E i \in 1..Len(net_devices) : net_devices[i].id = id
    /\ LockFree(id)
    /\ io' = io \cup {id}
    /\ UNCHANGED <<net_devices, call, snap, order, ctl>>

\* The I/O thread is done with its device.
IoUnlock(id) ==
    /\ id \in io
    /\ io' = io \ {id}
    /\ UNCHANGED <<net_devices, call, snap, order, ctl>>

BeginBuildStep == \E cfg \in StepConfigs, factoryOk \in BOOLEAN : BeginBuild(cfg, factoryOk)

IoLockStep == \E id \in Ids : IoLock(id)

IoUnlockStep == \E id \in Ids : IoUnlock(id)

NextSteps ==
    \/ BeginBuildStep \/ MacLock \/ MacTest \/ PosLock \/ PosTest
    \/ SwapRemoveOld \/ ResolveLimiters \/ FactoryReturns \/ PushNew
    \/ BeginConfigs \/ CfgLock \/ CfgPush
    \/ IoLockStep \/ IoUnlockStep \/ Return

SpecSteps == Init /\ [][NextSteps]_vars

\* ------------------------------------------------------------ properties
IndicesOf(devs, id) == {i \in 1..Len(devs) : devs[i].id = id}

HasId(devs, id) == IndicesOf(devs, id) # {}

\* Some handle with another id reports the (present) MAC of the config.
MacHeldByOther(devs, cfg) ==
    /\ cfg.guest_mac # NoMac
    /\ \E i \in 1..Len(devs) :
          devs[i].guest_mac = cfg.guest_mac /\ devs[i].id # cfg.iface_id

LimiterFails(cfg) == cfg.rx_rate_limiter = "Bad" \/ cfg.tx_rate_limiter = "Bad"

IsBuild == call.op = "build"

\* C1: no two handles of the registry report the same non-empty guest MAC.
C1_MacUnique ==
    \A i, j \in 1..Len(net_devices) :
        (i # j /\ net_devices[i].guest_mac # NoMac)
            => net_devices[i].guest_mac # net_devices[j].guest_mac

\* Two handles with different MACs are present after a build that succeeded
\* although another handle had a MAC.
C1_Witness ==
    /\ IsBuild /\ call.result = "Ok"
    /\ Len(net_devices) = 3
    /\ \E i, j \in 1..Len(net_devices) :
          /\ i # j
          /\ net_devices[i].guest_mac # NoMac
          /\ net_devices[j].guest_mac # NoMac

\* C2: no two handles of the registry have the same interface id.
C2_IdUnique ==
    \A i, j \in 1..Len(net_devices) :
        i # j => net_devices[i].id # net_devices[j].id

\* A build has replaced the device of an id that was present.
C2_Witness ==
    /\ IsBuild /\ call.result = "Ok"
    /\ HasId(call.prev, call.cfg.iface_id)
    /\ Len(net_devices) >= 2

\* C3: a build whose MAC is reported by a handle with another id fails with
\* GuestMacAddressInUse carrying the MAC, does not call the factory and
\* leaves the registry as it was.
C3_ConflictRejected ==
    (IsBuild /\ MacHeldByOther(call.prev, call.cfg))
        => /\ call.result = "GuestMacAddressInUse"
           /\ call.errMac = MacToString(call.cfg.guest_mac)
           /\ ~call.factoryCalled
           /\ net_devices = call.prev

\* The conflicting build was for an id that is present: its old device is kept.
C3_Witness ==
    /\ IsBuild /\ MacHeldByOther(call.prev, call.cfg)
    /\ HasId(call.prev, call.cfg.iface_id)
    /\ call.result = "GuestMacAddressInUse"
    /\ call.errMac = <<"0", "6", ":", "0", "0", ":", "0", "0", ":", "0", "0", ":",
                       "0", "0", ":", "1", "b">>

\* C4: a build for a present id that passes the MAC check and whose
\* construction fails returns the construction error and leaves the id
\* absent, the registry one shorter.
C4_DestructiveReplace ==
    (/\ IsBuild
     /\ HasId(call.prev, call.cfg.iface_id)
     /\ ~MacHeldByOther(call.prev, call.cfg)
     /\ (LimiterFails(call.cfg) \/ ~call.factoryOk))
        => /\ call.result =
                (IF LimiterFails(call.cfg) THEN "CreateRateLimiter"
                                           ELSE "CreateNetworkDevice")
           /\ ~HasId(net_devices, call.cfg.iface_id)
           /\ Len(net_devices) = Len(call.prev) - 1

\* The factory rejected the rebuild of a present id.
C4_Witness ==
    /\ IsBuild
    /\ HasId(call.prev, call.cfg.iface_id)
    /\ call.result = "CreateNetworkDevice"
    /\ Len(call.prev) = 3

\* C5: after a successful build exactly one handle has the config's id, it
\* reports the config's MAC and host device name in configs(), and the
\* length is unchanged for a present id and one greater for an absent one.
C5_CreateOrReplace ==
    (IsBuild /\ call.result = "Ok")
        => /\ Cardinality(IndicesOf(net_devices, call.cfg.iface_id)) = 1
           /\ \A i \in IndicesOf(net_devices, call.cfg.iface_id) :
                 /\ configs(net_devices)[i].guest_mac = call.cfg.guest_mac
                 /\ configs(net_devices)[i].host_dev_name = call.cfg.host_dev_name
           /\ Len(net_devices) =
                 (IF HasId(call.prev, call.cfg.iface_id)
                  THEN Len(call.prev) ELSE Len(call.prev) + 1)

\* The first of three devices was rebuilt with another name and MAC.
C5_Witness ==
    /\ IsBuild /\ call.result = "Ok"
    /\ Len(call.prev) = 3
    /\ call.prev[1].id = call.cfg.iface_id
    /\ call.prev[1].host_dev_name # call.cfg.host_dev_name
    /\ call.prev[1].guest_mac # call.cfg.guest_mac

\* C6: a build of id A with a MAC that only handles of id A report never
\* fails with GuestMacAddressInUse.
C6_SelfMacReuse ==
    (/\ IsBuild
     /\ call.cfg.guest_mac # NoMac
     /\ HasId(call.prev, call.cfg.iface_id)
     /\ \A i \in 1..Len(call.prev) :
           call.prev[i].guest_mac = call.cfg.guest_mac
               => call.prev[i].id = call.cfg.iface_id)
        => call.result # "GuestMacAddressInUse"

\* Id A was rebuilt with the MAC it had, next to another device.
C6_Witness ==
    /\ IsBuild /\ call.result = "Ok"
    /\ call.cfg.guest_mac # NoMac
    /\ Len(call.prev) >= 2
    /\ \E i \in 1..Len(call.prev) :
          /\ call.prev[i].id = call.cfg.iface_id
          /\ call.prev[i].guest_mac = call.cfg.guest_mac

\* C7: a build of a config without guest MAC never fails with
\* GuestMacAddressInUse.
C7_AbsentMacNeverConflicts ==
    (IsBuild /\ call.cfg.guest_mac = NoMac)
        => call.result # "GuestMacAddressInUse"

\* A device without MAC was built next to two others without MAC.
C7_Witness ==
    /\ IsBuild /\ call.result = "Ok"
    /\ call.cfg.guest_mac = NoMac
    /\ Len(call.prev) = 2
    /\ \A i \in 1..Len(call.prev) :
          call.prev[i].guest_mac = NoMac /\ call.prev[i].id # call.cfg.iface_id

\* C8: configs() after a successful build of a config without limiters on
\* the empty registry returns exactly that config, and configs() leaves the
\* registry as it was.
C8_SnapshotRoundTrip ==
    /\ snap.taken => net_devices = snap.before
    /\ (/\ snap.taken
        /\ IsBuild /\ call.result = "Ok"
        /\ call.prev = <<>>
        /\ call.cfg.rx_rate_limiter = NoneV
        /\ call.cfg.tx_rate_limiter = NoneV)
           => snap.entries = <<call.cfg>>

\* configs() was called after such a build, of a config with a MAC.
C8_Witness ==
    /\ snap.taken
    /\ IsBuild /\ call.result = "Ok"
    /\ call.prev = <<>>
    /\ call.cfg.rx_rate_limiter = NoneV
    /\ call.cfg.tx_rate_limiter = NoneV
    /\ call.cfg.guest_mac # NoMac
    /\ Len(snap.entries) = 1

\* C9: a build that has a MAC conflict and would also fail in limiter
\* resolution or in the factory returns GuestMacAddressInUse, and neither
\* resolves a limiter nor calls the factory.
C9_ConflictFirst ==
    (/\ IsBuild
     /\ MacHeldByOther(call.prev, call.cfg)
     /\ (LimiterFails(call.cfg) \/ ~call.factoryOk))
        => /\ call.result = "GuestMacAddressInUse"
           /\ call.resolved = <<>>
           /\ ~call.factoryCalled

\* A conflicting build carried a limiter descriptor that does not resolve.
C9_Witness ==
    /\ IsBuild
    /\ MacHeldByOther(call.prev, call.cfg)
    /\ LimiterFails(call.cfg)
    /\ call.result = "GuestMacAddressInUse"

\* C10: a build that passes the MAC check and has a limiter descriptor that
\* does not resolve fails with CreateRateLimiter, does not call the factory
\* and inserts no handle.
C10_LimiterFailure ==
    (/\ IsBuild
     /\ ~MacHeldByOther(call.prev, call.cfg)
     /\ LimiterFails(call.cfg))
        => /\ call.result = "CreateRateLimiter"
           /\ ~call.factoryCalled
           /\ ~HasId(net_devices, call.cfg.iface_id)
           /\ Len(net_devices) <= Len(call.prev)
           /\ \A i \in 1..Len(net_devices) :
                 \E j \in 1..Len(call.prev) : net_devices[i] = call.prev[j]

\* The tx limiter of a build for an absent id did not resolve.
C10_Witness ==
    /\ IsBuild
    /\ call.cfg.tx_rate_limiter = "Bad"
    /\ ~HasId(call.prev, call.cfg.iface_id)
    /\ Len(call.prev) >= 1
    /\ call.result = "CreateRateLimiter"

\* C11 as claimed: in the construction step the factory is invoked, and each
\* of the limiters it receives is the default one both when the config field
\* is absent and when its descriptor fails to resolve.
C11_Original ==
    (IsBuild /\ ~MacHeldByOther(call.prev, call.cfg))
        => /\ call.factoryCalled
           /\ (call.cfg.rx_rate_limiter \in {NoneV, "Bad"}
                 => call.limiters[1] = Unlimited)
           /\ (call.cfg.tx_rate_limiter \in {NoneV, "Bad"}
                 => call.limiters[2] = Unlimited)

\* C11 amended: when every present descriptor resolves the factory is invoked
\* and receives the default limiter for each absent field; when a descriptor
\* fails to resolve the factory is not invoked and build fails with
\* CreateRateLimiter.
C11_LimiterDefaulting ==
    (IsBuild /\ ~MacHeldByOther(call.prev, call.cfg))
        => IF LimiterFails(call.cfg)
           THEN ~call.factoryCalled /\ call.result = "CreateRateLimiter"
           ELSE /\ call.factoryCalled
                /\ (call.cfg.rx_rate_limiter = NoneV => call.limiters[1] = Unlimited)
                /\ (call.cfg.tx_rate_limiter = NoneV => call.limiters[2] = Unlimited)
                /\ (call.cfg.rx_rate_limiter # NoneV
                      => call.limiters[1] = call.cfg.rx_rate_limiter)
                /\ (call.cfg.tx_rate_limiter # NoneV
                      => call.limiters[2] = call.cfg.tx_rate_limiter)

\* The factory was invoked with a default rx limiter and a tx limiter with a
\* bucket, and rejected the device.
C11_Witness ==
    /\ IsBuild
    /\ call.result = "CreateNetworkDevice"
    /\ call.cfg.rx_rate_limiter = NoneV
    /\ call.cfg.tx_rate_limiter = "L1"
    /\ call.limiters = <<Unlimited, "L1">>

\* C16 as claimed: over a build call an id that is present stays present, and
\* an absent id becomes present only by a successful build of that id.
C16_Original ==
    IsBuild =>
        \A id \in Ids :
            /\ HasId(call.prev, id) => HasId(net_devices, id)
            /\ (~HasId(call.prev, id) /\ HasId(net_devices, id))
                  => (call.result = "Ok" /\ call.cfg.iface_id = id)

\* C16 amended: over a build call an absent id becomes present only by a
\* successful build of that id, a present id becomes absent only by a build
\* of that id that passed the MAC check and failed in construction, and a
\* build never changes the presence of another id.
C16_PresenceTransitions ==
    IsBuild =>
        \A id \in Ids :
            /\ (~HasId(call.prev, id) /\ HasId(net_devices, id))
                  => (call.result = "Ok" /\ call.cfg.iface_id = id)
            /\ (HasId(call.prev, id) /\ ~HasId(net_devices, id))
                  => /\ call.cfg.iface_id = id
                     /\ call.result \in {"CreateRateLimiter", "CreateNetworkDevice"}
            /\ id # call.cfg.iface_id
                  => (HasId(call.prev, id) <=> HasId(net_devices, id))
            /\ (id = call.cfg.iface_id /\ call.result = "Ok") => HasId(net_devices, id)

\* A present id, not the last of the registry, became absent by a build
\* that the factory rejected.
C16_Witness ==
    /\ IsBuild
    /\ call.result = "CreateNetworkDevice"
    /\ Len(call.prev) = 3
    /\ call.prev[2].id = call.cfg.iface_id
    /\ ~HasId(net_devices, call.cfg.iface_id)

HandlesOtherThan(devs, id) == {devs[i] : i \in {j \in 1..Len(devs) : devs[j].id # id}}

\* C20: whatever the outcome of a build for id X, the handles whose id
\* differs from X are the same before and after the call.
C20_OthersUntouched ==
    IsBuild =>
        /\ HandlesOtherThan(net_devices, call.cfg.iface_id)
             = HandlesOtherThan(call.prev, call.cfg.iface_id)
        /\ Cardinality({i \in 1..Len(net_devices) :
                           net_devices[i].id # call.cfg.iface_id})
             = Cardinality({i \in 1..Len(call.prev) :
                              call.prev[i].id # call.cfg.iface_id})

\* The first of three devices was rebuilt: the last one took its place.
C20_Witness ==
    /\ IsBuild
    /\ Len(call.prev) = 3
    /\ call.prev[1].id = call.cfg.iface_id
    /\ call.result \in {"Ok", "CreateRateLimiter", "CreateNetworkDevice"}
    /\ net_devices[1] = call.prev[3]
    /\ net_devices[2] = call.prev[2]

\* C19: after a successful build the handle returned is the last element of
\* the registry, the same allocation, and the factory had been called; a
\* build that fails returns no handle and leaves only handles that were in
\* the registry before.
C19_ReturnedIsInstalled ==
    IsBuild =>
        IF call.result = "Ok"
        THEN /\ call.factoryCalled
             /\ Len(net_devices) >= 1
             /\ net_devices[Len(net_devices)] = call.ret
             /\ NetOf(call.ret).id = call.cfg.iface_id
        ELSE /\ call.ret = NoneV
             /\ Len(net_devices) <= Len(call.prev)
             /\ \A i \in 1..Len(net_devices) :
                   \E j \in 1..Len(call.prev) : net_devices[i] = call.prev[j]

\* A successful build returned the handle it pushed after two others.
C19_Witness ==
    /\ IsBuild /\ call.result = "Ok"
    /\ Len(net_devices) = 3
    /\ net_devices[3] = call.ret
    /\ call.ret.guest_mac # NoMac

\* Position of an id in the order of the builds.
BuiltAt(id) == CHOOSE k \in 1..Len(order.ids) : order.ids[k] = id

\* C12 as claimed: if handle X precedes handle Y in the registry (and in
\* the entries of configs()) then the last successful build of X completed
\* before that of Y.
C12_Original ==
    order.on =>
        /\ \A i, j \in 1..Len(net_devices) :
              i < j => BuiltAt(net_devices[i].id) < BuiltAt(net_devices[j].id)
        /\ snap.taken =>
              \A i, j \in 1..Len(snap.entries) :
                  i < j => BuiltAt(snap.entries[i].iface_id)
                             < BuiltAt(snap.entries[j].iface_id)

\* C12 amended: after a successful build the handle just (re)created is the
\* last element of the registry, and configs() lists the handles in
\* registry order, so its entry is the last one.
C12_NewestLast ==
    order.on =>
        /\ (IsBuild /\ call.result = "Ok")
              => /\ net_devices[Len(net_devices)].id = call.cfg.iface_id
                 /\ order.ids[Len(order.ids)] = call.cfg.iface_id
        /\ snap.taken =>
              /\ Len(snap.entries) = Len(net_devices)
              /\ \A i \in 1..Len(net_devices) :
                    snap.entries[i].iface_id = net_devices[i].id

\* The first of three devices was rebuilt and configs() was called.
C12_Witness ==
    /\ order.on
    /\ IsBuild /\ call.result = "Ok"
    /\ Len(call.prev) = 3
    /\ call.prev[1].id = call.cfg.iface_id
    /\ snap.taken
    /\ snap.entries[3].iface_id = call.cfg.iface_id

\* C13: add_device never fails and leaves the registry as the previous
\* sequence of handles followed by the added handle.
C13_AddAppends ==
    call.op = "add_device" =>
        /\ call.result = "Ok"
        /\ Len(net_devices) = Len(call.prev) + 1
        /\ \A i \in 1..Len(call.prev) : net_devices[i] = call.prev[i]
        /\ net_devices[Len(net_devices)] = call.ret

\* The device added has the id and the MAC of a handle already present.
C13_Witness ==
    /\ call.op = "add_device"
    /\ call.ret.guest_mac # NoMac
    /\ \E i \in 1..Len(call.prev) :
          /\ call.prev[i].id = call.ret.id
          /\ call.prev[i].guest_mac = call.ret.guest_mac
    /\ Len(net_devices) = Len(call.prev) + 1

IsUpdate == call.op = "update"

\* The entries configs() returned are those of the registry before the
\* update, except for the given fields of the entry at index.
SameSnapshotBut(index, fields) ==
    /\ Len(snap.entries) = Len(call.prev)
    /\ \A i \in 1..Len(call.prev) :
          LET old == configs(call.prev)[i]
              new == snap.entries[i]
          IN /\ new.iface_id = old.iface_id
             /\ new.host_dev_name = old.host_dev_name
             /\ new.guest_mac = old.guest_mac
             /\ (i # index \/ "rx" \notin fields)
                   => new.rx_rate_limiter = old.rx_rate_limiter
             /\ (i # index \/ "tx" \notin fields)
                   => new.tx_rate_limiter = old.tx_rate_limiter

\* C14: in the snapshot taken after an update that supplies only rx_limit
\* (only tx_limit) for a present id, that handle has the new rx (tx) limiter
\* and everything else is as before the update; an update for an absent id
\* fails with DeviceUpdate and changes nothing.
C14_PatchPreserves ==
    IsUpdate =>
        LET upd == call.cfg
            index == Position(call.prev, upd.iface_id)
        IN IF index = 0
           THEN /\ call.result = "DeviceUpdate"
                /\ net_devices = call.prev
                /\ snap.taken => snap.entries = configs(call.prev)
           ELSE /\ call.result = "Ok"
                /\ (snap.taken /\ upd.rx_rate_limiter # NoneV
                                /\ upd.tx_rate_limiter = NoneV)
                      => /\ SameSnapshotBut(index, {"rx"})
                         /\ snap.entries[index].rx_rate_limiter = upd.rx_rate_limiter
                /\ (snap.taken /\ upd.tx_rate_limiter # NoneV
                                /\ upd.rx_rate_limiter = NoneV)
                      => /\ SameSnapshotBut(index, {"tx"})
                         /\ snap.entries[index].tx_rate_limiter = upd.tx_rate_limiter

\* An update of rx only, for a device that had a tx limiter and no rx
\* limiter, next to another device, was followed by configs().
C14_Witness ==
    /\ IsUpdate /\ call.result = "Ok"
    /\ snap.taken
    /\ Len(call.prev) >= 2
    /\ call.cfg.rx_rate_limiter = "L1"
    /\ call.cfg.tx_rate_limiter = NoneV
    /\ \E i \in 1..Len(call.prev) :
          /\ call.prev[i].id = call.cfg.iface_id
          /\ call.prev[i].rx = Unlimited
          /\ call.prev[i].tx = "L1"
          /\ snap.entries[i].rx_rate_limiter = "L1"
          /\ snap.entries[i].tx_rate_limiter = "L1"

HasQuote(text) == \E k \in 1..Len(text) : text[k] = Quote

\* C15 as claimed: the Display string of a variant that embeds a
\* collaborator error (CreateNetworkDevice, CreateRateLimiter, DeviceUpdate,
\* OpenTap) contains no double quote coming from the collaborator's text.
C15_Original ==
    (/\ call.op = "display"
     /\ call.variant \in {"CreateNetworkDevice", "CreateRateLimiter",
                           "DeviceUpdate", "OpenTap"})
        => ~HasQuote(call.shown)


\* The calls followed statement by statement give what build and configs
\* give as functions of the registry.
StepsAgree ==
    /\ IsBuild =>
          LET r == build(call.prev, call.cfg, call.factoryOk)
          IN /\ net_devices = r.devices
             /\ call.result = r.result
             /\ call.ret = r.ret
             /\ call.resolved = r.resolved
             /\ call.factoryCalled = r.factoryCalled
    /\ snap.taken => snap.entries = configs(snap.before) /\ snap.before = net_devices

\* The control-plane thread waits for the lock of a handle.
CtlWaiting ==
    /\ ctl.pc \in LockPcs
    /\ ctl.i <= Len(net_devices)
    /\ net_devices[ctl.i].id \in io

\* C17 as stated: the exclusive access to the registry is held for the
\* conflict check, the removal and the insertion only, and it is not held
\* while the call of the device factory is in progress.
C17_Original ==
    ctl.pc = "factory" => ctl.borrow # "exclusive"

\* C18: the control-plane thread holds the lock of at most one handle at a
\* time, it holds none when it asks for one, so it never waits for a lock
\* while it holds another, and a lock is never held by two threads: with I/O
\* threads that lock one handle each, no thread waits for a thread that waits.
C18_OneLockAtATime ==
    /\ Cardinality(ctl.locked) <= 1
    /\ ctl.pc \in LockPcs \cup {"idle", "remove", "construct", "factory", "push"}
          => ctl.locked = {}
    /\ CtlWaiting => ctl.locked = {}
    /\ ctl.locked \cap io = {}

\* C18's case: the control-plane thread holds the lock of the second handle
\* of the registry while an I/O thread holds the lock of the first one.
C18_Witness ==
    /\ Len(net_devices) >= 2
    /\ ctl.pc \in {"mac_test", "pos_test", "cfg_push"}
    /\ ctl.i = 2
    /\ ctl.locked = {net_devices[2].id}
    /\ net_devices[1].id \in io

====
